---- MODULE Spec2Model ----
(***************************************************************************)
(* The Variable catalog of properties/models.py, the two seeding commands  *)
(* (seed_variables, load_variable_catalog), the admin actions and forms of *)
(* VariableAdmin, the methods clean, get_validation_rules and              *)
(* get_choices_display of Variable, the cascade of parent_variable, and    *)
(* Property.save.                                                          *)
(*                                                                         *)
(* The class body of Variable holds two field lists; the later assignment  *)
(* of a name wins, so the effective model has the fields of lines 224-332  *)
(* plus display_order, use_in_regression, parent_variable and              *)
(* transformation_rule of lines 123-151, and the methods clean and         *)
(* get_validation_rules of lines 169-206.                                  *)
(*                                                                         *)
(* Optional values: None is <<>> and a value v is <<v>>.  choices is a     *)
(* record [kind, items]: kind "none" (None), "list" (a JSON list of        *)
(* labels) or "dict" (a JSON object, as a sequence of <<code, label>>).    *)
(* The free-text columns description, unit and transformation_rule and the *)
(* timestamps carry no logic and are left out of the rows.                 *)
(***************************************************************************)
EXTENDS Integers, Sequences, FiniteSets, TLC

VARIABLES
    store,      \* the rows of the properties_variable table
    nextId,     \* the next primary key the table hands out
    last,       \* the most recent operation: its input, the store before it, its report
                \* (an admin form records its kind and its error only)
    prev,       \* the operation before it, when both are seed runs of the same list
    obj,        \* the in-memory Variable instance clean() works on
    given,      \* that instance as it was when clean() was last called
    cleanErr,   \* the outcome of clean() on obj
    call,       \* the most recent method call on an instance and what it returned
                \* or raised
    property    \* the in-memory Property instance, as it is and as it was before
                \* its last save(), and the row save() wrote

vars == <<store, nextId, last, prev, obj, given, cleanErr, call, property>>

----------------------------------------------------------------------------
(* Bounds *)

MaxLen == 2         \* longest list of definitions given to a seed run
MaxVal == 2         \* min_value and max_value range over 0, 5, .., 5 * MaxVal
MaxId == 3          \* highest primary key handed out where rows are deleted
MaxAmount == 3      \* total_price, total_area and price_per_sqm range over -1 .. MaxAmount

----------------------------------------------------------------------------
(* Values *)

None == <<>>
Some(v) == <<v>>

NoChoices == [kind |-> "none", items |-> <<>>]
ListChoices(labels) == [kind |-> "list", items |-> labels]
DictChoices(pairs) == [kind |-> "dict", items |-> pairs]

\* Python truthiness of a JSON value: None, [] and {} are falsy
Truthy(ch) == ch.kind # "none" /\ ch.items # <<>>

\* the columns of a row besides the primary key
Fields ==
    {"code", "name", "data_type", "min_value", "max_value", "choices",
     "choice_order", "is_required", "is_active", "category", "display_order",
     "use_in_regression", "parent_variable"}

\* the value a column takes when a create does not name it
FieldDefault ==
    [code |-> "", name |-> "", data_type |-> "", min_value |-> None,
     max_value |-> None, choices |-> NoChoices, choice_order |-> None,
     is_required |-> FALSE, is_active |-> TRUE, category |-> "",
     display_order |-> 0, use_in_regression |-> TRUE, parent_variable |-> None]

----------------------------------------------------------------------------
(* Definitions given to the seeders: entries of the two built-in lists,    *)
(* each with the keys its entry names.  elevador occurs in both lists.     *)

CatalogAreaTotal ==
    [code |-> "area_total", name |-> "Area Total", data_type |-> "quantitativa",
     min_value |-> Some(0), max_value |-> Some(100000), category |-> "dimensoes",
     is_required |-> TRUE]

SeedElevador ==
    [code |-> "elevador", name |-> "Possui Elevador", category |-> "physical",
     data_type |-> "boolean", is_required |-> FALSE, use_in_regression |-> TRUE,
     display_order |-> 70]

CatalogElevador ==
    [code |-> "elevador", name |-> "Elevador", data_type |-> "qualitativa_nominal",
     choices |-> DictChoices(<< <<"nao", "Nao">>, <<"sim", "Sim">> >>),
     category |-> "infraestrutura"]

Definitions == {CatalogAreaTotal, SeedElevador, CatalogElevador}

SeedAreaTotal ==
    [code |-> "area_total", name |-> "Area Total", category |-> "physical",
     data_type |-> "decimal", min_value |-> Some(0), max_value |-> Some(10000),
     is_required |-> TRUE, use_in_regression |-> TRUE, display_order |-> 10]

\* the list of seed_variables and the list of load_variable_catalog, each in
\* its order, cut down to the entries for area_total and elevador
SeedVariables == <<SeedAreaTotal, SeedElevador>>
CatalogVariables == <<CatalogAreaTotal, CatalogElevador>>

RECURSIVE SeqsUpTo(_, _)
SeqsUpTo(S, n) ==
    IF n = 0 THEN {<<>>}
    ELSE LET shorter == SeqsUpTo(S, n - 1)
         IN  shorter \cup {Append(q, x) : q \in shorter, x \in S}

DefinitionLists == SeqsUpTo(Definitions, MaxLen)

----------------------------------------------------------------------------
(* The two built-in lists in full.  Each entry has the keys its source     *)
(* entry names, but for description, unit and transformation_rule; accents *)
(* are dropped from names and labels.                                      *)

\* a mutant: an entry with its bounds swapped, one with its choices left out
AllSeedVariablesInvalid ==
    <<
     [code |-> "area_total", name |-> "Area Total", category |-> "physical",
      data_type |-> "decimal", min_value |-> Some(10000),
      max_value |-> Some(0), is_required |-> TRUE,
      use_in_regression |-> TRUE, display_order |-> 10],
     [code |-> "topografia", name |-> "Topografia", category |-> "physical",
      data_type |-> "choice", is_required |-> FALSE,
      use_in_regression |-> TRUE, display_order |-> 14]
    >>

\* the whole list of seed_variables, in its order
AllSeedVariables ==
    <<
     [code |-> "area_total", name |-> "Area Total", category |-> "physical",
      data_type |-> "decimal", min_value |-> Some(0),
      max_value |-> Some(10000), is_required |-> TRUE,
      use_in_regression |-> TRUE, display_order |-> 10],
     [code |-> "area_privativa", name |-> "Area Privativa",
      category |-> "physical", data_type |-> "decimal",
      min_value |-> Some(0), max_value |-> Some(10000),
      is_required |-> FALSE, use_in_regression |-> TRUE, display_order |-> 11],
     [code |-> "area_terreno", name |-> "Area do Terreno",
      category |-> "physical", data_type |-> "decimal",
      min_value |-> Some(0), max_value |-> Some(100000),
      is_required |-> FALSE, use_in_regression |-> TRUE, display_order |-> 12],
     [code |-> "testada", name |-> "Testada", category |-> "physical",
      data_type |-> "decimal", min_value |-> Some(0),
      max_value |-> Some(1000), is_required |-> FALSE,
      use_in_regression |-> TRUE, display_order |-> 13],
     [code |-> "topografia", name |-> "Topografia", category |-> "physical",
      data_type |-> "choice",
      choices |-> ListChoices(<<"Plano", "Aclive", "Declive", "Irregular">>),
      is_required |-> FALSE, use_in_regression |-> TRUE, display_order |-> 14],
     [code |-> "quartos", name |-> "Numero de Quartos",
      category |-> "physical", data_type |-> "integer",
      min_value |-> Some(0), max_value |-> Some(20), is_required |-> FALSE,
      use_in_regression |-> TRUE, display_order |-> 20],
     [code |-> "suites", name |-> "Numero de Suites",
      category |-> "physical", data_type |-> "integer",
      min_value |-> Some(0), max_value |-> Some(10), is_required |-> FALSE,
      use_in_regression |-> TRUE, display_order |-> 21],
     [code |-> "banheiros", name |-> "Numero de Banheiros",
      category |-> "physical", data_type |-> "integer",
      min_value |-> Some(0), max_value |-> Some(10), is_required |-> FALSE,
      use_in_regression |-> TRUE, display_order |-> 22],
     [code |-> "vagas_garagem", name |-> "Vagas de Garagem",
      category |-> "physical", data_type |-> "integer",
      min_value |-> Some(0), max_value |-> Some(10), is_required |-> FALSE,
      use_in_regression |-> TRUE, display_order |-> 30],
     [code |-> "andar", name |-> "Andar", category |-> "physical",
      data_type |-> "integer", min_value |-> Some(0),
      max_value |-> Some(100), is_required |-> FALSE,
      use_in_regression |-> TRUE, display_order |-> 31],
     [code |-> "elevador", name |-> "Possui Elevador",
      category |-> "physical", data_type |-> "boolean",
      is_required |-> FALSE, use_in_regression |-> TRUE, display_order |-> 70],
     [code |-> "piscina", name |-> "Possui Piscina", category |-> "physical",
      data_type |-> "boolean", is_required |-> FALSE,
      use_in_regression |-> TRUE, display_order |-> 71],
     [code |-> "padrao_construcao", name |-> "Padrao de Construcao",
      category |-> "quality", data_type |-> "choice",
      choices |-> ListChoices(<<"Baixo", "Normal", "Alto", "Luxo">>),
      is_required |-> FALSE, use_in_regression |-> TRUE, display_order |-> 50],
     [code |-> "estado_conservacao", name |-> "Estado de Conservacao",
      category |-> "quality", data_type |-> "choice",
      choices |-> ListChoices(<<"Ruim", "Regular", "Bom", "Otimo", "Novo">>),
      is_required |-> FALSE, use_in_regression |-> TRUE, display_order |-> 51],
     [code |-> "portaria_24h", name |-> "Portaria 24h",
      category |-> "quality", data_type |-> "boolean", is_required |-> FALSE,
      use_in_regression |-> TRUE, display_order |-> 72],
     [code |-> "distancia_centro", name |-> "Distancia ao Centro",
      category |-> "location", data_type |-> "decimal",
      min_value |-> Some(0), max_value |-> Some(100), is_required |-> FALSE,
      use_in_regression |-> TRUE, display_order |-> 60],
     [code |-> "vista", name |-> "Vista", category |-> "location",
      data_type |-> "choice",
      choices |-> ListChoices(<<"Sem vista", "Vista parcial", "Vista livre", "Vista mar/lago">>),
      is_required |-> FALSE, use_in_regression |-> TRUE, display_order |-> 61],
     [code |-> "frente", name |-> "Frente", category |-> "location",
      data_type |-> "choice",
      choices |-> ListChoices(<<"Frente", "Fundos", "Lateral">>),
      is_required |-> FALSE, use_in_regression |-> TRUE, display_order |-> 62],
     [code |-> "posicao_solar", name |-> "Posicao Solar",
      category |-> "location", data_type |-> "choice",
      choices |-> ListChoices(<<"Norte", "Sul", "Leste", "Oeste", "Nordeste", "Noroeste", "Sudeste", "Sudoeste">>),
      is_required |-> FALSE, use_in_regression |-> TRUE, display_order |-> 63],
     [code |-> "idade_imovel", name |-> "Idade do Imovel",
      category |-> "temporal", data_type |-> "integer",
      min_value |-> Some(0), max_value |-> Some(200), is_required |-> FALSE,
      use_in_regression |-> TRUE, display_order |-> 40],
     [code |-> "valor_condominio", name |-> "Valor do Condominio",
      category |-> "proxy", data_type |-> "decimal", min_value |-> Some(0),
      max_value |-> Some(50000), is_required |-> FALSE,
      use_in_regression |-> TRUE, display_order |-> 80],
     [code |-> "iptu_anual", name |-> "IPTU Anual", category |-> "proxy",
      data_type |-> "decimal", min_value |-> Some(0),
      max_value |-> Some(100000), is_required |-> FALSE,
      use_in_regression |-> TRUE, display_order |-> 81],
     [code |-> "dic_padrao_alto", name |-> "Dummy: Padrao Alto",
      category |-> "dicotomica", data_type |-> "dicotomica",
      is_required |-> FALSE, use_in_regression |-> TRUE, display_order |-> 90],
     [code |-> "dic_padrao_luxo", name |-> "Dummy: Padrao Luxo",
      category |-> "dicotomica", data_type |-> "dicotomica",
      is_required |-> FALSE, use_in_regression |-> TRUE, display_order |-> 91],
     [code |-> "dic_vista_mar", name |-> "Dummy: Vista Mar",
      category |-> "dicotomica", data_type |-> "dicotomica",
      is_required |-> FALSE, use_in_regression |-> TRUE, display_order |-> 92]
    >>

\* the whole list of load_variable_catalog, in its order
AllCatalogVariables ==
    <<
     [code |-> "area_total", name |-> "Area Total", category |-> "dimensoes",
      data_type |-> "quantitativa", min_value |-> Some(0),
      max_value |-> Some(100000), is_required |-> TRUE],
     [code |-> "area_privativa", name |-> "Area Privativa",
      category |-> "dimensoes", data_type |-> "quantitativa",
      min_value |-> Some(0), max_value |-> Some(100000)],
     [code |-> "area_terreno", name |-> "Area do Terreno",
      category |-> "dimensoes", data_type |-> "quantitativa",
      min_value |-> Some(0), max_value |-> Some(1000000)],
     [code |-> "frente", name |-> "Frente", category |-> "dimensoes",
      data_type |-> "quantitativa", min_value |-> Some(0),
      max_value |-> Some(1000)],
     [code |-> "quartos", name |-> "Quartos", category |-> "caracteristicas",
      data_type |-> "quantitativa", min_value |-> Some(0),
      max_value |-> Some(20)],
     [code |-> "suites", name |-> "Suites", category |-> "caracteristicas",
      data_type |-> "quantitativa", min_value |-> Some(0),
      max_value |-> Some(10)],
     [code |-> "banheiros", name |-> "Banheiros",
      category |-> "caracteristicas", data_type |-> "quantitativa",
      min_value |-> Some(0), max_value |-> Some(20)],
     [code |-> "vagas", name |-> "Vagas de Garagem",
      category |-> "caracteristicas", data_type |-> "quantitativa",
      min_value |-> Some(0), max_value |-> Some(20)],
     [code |-> "dist_centro", name |-> "Distancia ao Centro",
      category |-> "localizacao", data_type |-> "quantitativa",
      min_value |-> Some(0), max_value |-> Some(500)],
     [code |-> "dist_metro", name |-> "Distancia ao Metro",
      category |-> "localizacao", data_type |-> "quantitativa",
      min_value |-> Some(0), max_value |-> Some(50000)],
     [code |-> "idade", name |-> "Idade Aparente",
      category |-> "caracteristicas", data_type |-> "quantitativa",
      min_value |-> Some(0), max_value |-> Some(200)],
     [code |-> "andar", name |-> "Andar", category |-> "caracteristicas",
      data_type |-> "quantitativa", min_value |-> Some(0),
      max_value |-> Some(100)],
     [code |-> "padrao", name |-> "Padrao Construtivo",
      category |-> "caracteristicas", data_type |-> "qualitativa_ordinal",
      choices |-> DictChoices(<< <<"baixo", "Baixo">>, <<"medio", "Medio">>, <<"alto", "Alto">>, <<"luxo", "Luxo">> >>),
      choice_order |-> Some(<<"baixo", "medio", "alto", "luxo">>)],
     [code |-> "conservacao", name |-> "Estado de Conservacao",
      category |-> "conservacao", data_type |-> "qualitativa_ordinal",
      choices |-> DictChoices(<< <<"pessimo", "Pessimo">>, <<"ruim", "Ruim">>, <<"regular", "Regular">>, <<"bom", "Bom">>, <<"otimo", "Otimo">>, <<"novo", "Novo/Reformado">> >>),
      choice_order |-> Some(<<"pessimo", "ruim", "regular", "bom", "otimo", "novo">>)],
     [code |-> "localizacao_qualidade", name |-> "Qualidade da Localizacao",
      category |-> "localizacao", data_type |-> "qualitativa_ordinal",
      choices |-> DictChoices(<< <<"ruim", "Ruim">>, <<"regular", "Regular">>, <<"boa", "Boa">>, <<"otima", "Otima">>, <<"excelente", "Excelente">> >>),
      choice_order |-> Some(<<"ruim", "regular", "boa", "otima", "excelente">>)],
     [code |-> "posicao_quadra", name |-> "Posicao na Quadra",
      category |-> "localizacao", data_type |-> "qualitativa_nominal",
      choices |-> DictChoices(<< <<"meio", "Meio de Quadra">>, <<"esquina", "Esquina">>, <<"duas_frentes", "Duas Frentes">>, <<"vila", "Vila/Encravado">> >>)],
     [code |-> "vista", name |-> "Vista", category |-> "caracteristicas",
      data_type |-> "qualitativa_nominal",
      choices |-> DictChoices(<< <<"interna", "Interna/Limitada">>, <<"rua", "Rua">>, <<"lateral", "Lateral">>, <<"livre", "Livre/Ampla">>, <<"panoramica", "Panoramica">>, <<"mar", "Mar">>, <<"montanha", "Montanha">> >>)],
     [code |-> "orientacao_solar", name |-> "Orientacao Solar",
      category |-> "caracteristicas", data_type |-> "qualitativa_nominal",
      choices |-> DictChoices(<< <<"norte", "Norte">>, <<"sul", "Sul">>, <<"leste", "Leste">>, <<"oeste", "Oeste">>, <<"nordeste", "Nordeste">>, <<"noroeste", "Noroeste">>, <<"sudeste", "Sudeste">>, <<"sudoeste", "Sudoeste">> >>)],
     [code |-> "elevador", name |-> "Elevador",
      category |-> "infraestrutura", data_type |-> "qualitativa_nominal",
      choices |-> DictChoices(<< <<"nao", "Nao">>, <<"sim", "Sim">> >>)],
     [code |-> "piscina", name |-> "Piscina", category |-> "infraestrutura",
      data_type |-> "qualitativa_nominal",
      choices |-> DictChoices(<< <<"nao", "Nao">>, <<"sim", "Sim">> >>)],
     [code |-> "churrasqueira", name |-> "Churrasqueira",
      category |-> "infraestrutura", data_type |-> "qualitativa_nominal",
      choices |-> DictChoices(<< <<"nao", "Nao">>, <<"sim", "Sim">> >>)],
     [code |-> "varanda", name |-> "Varanda/Sacada",
      category |-> "caracteristicas", data_type |-> "qualitativa_nominal",
      choices |-> DictChoices(<< <<"nao", "Nao">>, <<"sim", "Sim">> >>)]
    >>

----------------------------------------------------------------------------
(* The table *)

Codes(s) == {r.code : r \in s}
Ids(s) == {r.id : r \in s}
CodeExists(s, c) == \E r \in s : r.code = c
RowOf(s, c) == CHOOSE r \in s : r.code = c

\* Variable(**params): the named columns, the column defaults for the rest
NewRow(id, d) ==
    [f \in Fields \cup {"id"} |->
        IF f = "id" THEN id
        ELSE IF f \in DOMAIN d THEN d[f] ELSE FieldDefault[f]]

\* setattr(obj, k, v) for k, v in defaults.items()
SetAttrs(r, d) ==
    [f \in DOMAIN r |-> IF f \in DOMAIN d THEN d[f] ELSE r[f]]

\* a mutant: the lookup by code never finds a row
UpdateOrCreateAlwaysCreates(s, nid, d) ==
    [store |-> s \cup {NewRow(nid, d)}, nextId |-> nid + 1, created |-> TRUE]

\* a mutant: get_or_create, an existing row is returned as it is
UpdateOrCreateNoUpdate(s, nid, d) ==
    IF CodeExists(s, d.code)
    THEN [store |-> s, nextId |-> nid, created |-> FALSE]
    ELSE [store |-> s \cup {NewRow(nid, d)}, nextId |-> nid + 1, created |-> TRUE]

\* a mutant: an existing row is overwritten with a fresh instance under its id
UpdateOrCreateReplaces(s, nid, d) ==
    IF CodeExists(s, d.code)
    THEN LET r == RowOf(s, d.code)
         IN  [store |-> (s \ {r}) \cup {NewRow(r.id, d)}, nextId |-> nid,
              created |-> FALSE]
    ELSE [store |-> s \cup {NewRow(nid, d)}, nextId |-> nid + 1, created |-> TRUE]

\* Variable.objects.update_or_create(code=d['code'], defaults=d)
UpdateOrCreate(s, nid, d) ==
    IF CodeExists(s, d.code)
    THEN LET r == RowOf(s, d.code)
         IN  [store |-> (s \ {r}) \cup {SetAttrs(r, d)}, nextId |-> nid,
              created |-> FALSE]
    ELSE [store |-> s \cup {NewRow(nid, d)}, nextId |-> nid + 1, created |-> TRUE]

\* the state of a seed run before its first definition
SeedStart(s, nid) ==
    [store |-> s, nextId |-> nid, created_count |-> 0, updated_count |-> 0,
     log |-> <<>>]

\* a mutant: a definition that changes nothing is not counted
SeedStepCountsChanges(st, d) ==
    LET res == UpdateOrCreate(st.store, st.nextId, d)
    IN  [store |-> res.store, nextId |-> res.nextId,
         created_count |-> IF res.created THEN st.created_count + 1
                           ELSE st.created_count,
         updated_count |-> IF ~res.created /\ res.store # st.store
                           THEN st.updated_count + 1
                           ELSE st.updated_count,
         log |-> Append(st.log, [code |-> d.code, created |-> res.created])]

\* one pass of the loop body: the upsert, then one of the two counters
SeedStep(st, d) ==
    LET res == UpdateOrCreate(st.store, st.nextId, d)
    IN  [store |-> res.store, nextId |-> res.nextId,
         created_count |-> IF res.created THEN st.created_count + 1
                           ELSE st.created_count,
         updated_count |-> IF res.created THEN st.updated_count
                           ELSE st.updated_count + 1,
         log |-> Append(st.log, [code |-> d.code, created |-> res.created])]

RECURSIVE SeedLoop(_, _)
\* for var_data in variables: ...  (st.log has one line per definition done,
\* so the next definition is the one after Len(st.log))
SeedLoop(st, L) ==
    IF Len(st.log) = Len(L) THEN st
    ELSE SeedLoop(SeedStep(st, L[Len(st.log) + 1]), L)

\* a mutant: the list is walked from its end
SeedRunReversed(s, nid, L) ==
    SeedLoop(SeedStart(s, nid), [i \in 1..Len(L) |-> L[Len(L) + 1 - i]])

\* a mutant: the catalog is reset to the list, rows absent from it are dropped
SeedRunSync(s, nid, L) ==
    SeedLoop(SeedStart({r \in s : \E i \in 1..Len(L) : L[i].code = r.code}, nid), L)

\* Command.handle of a seeder on the list L
SeedRun(s, nid, L) == SeedLoop(SeedStart(s, nid), L)

----------------------------------------------------------------------------
(* Variable.clean on an in-memory instance *)

DataTypes ==
    {"decimal", "integer", "boolean", "text", "choice", "date", "dicotomica",
     "quantitativa", "qualitativa_ordinal", "qualitativa_nominal"}

BoundValues == {None} \cup {Some(5 * k) : k \in 0..MaxVal}

ChoiceValues ==
    {NoChoices, ListChoices(<<>>), DictChoices(<<>>),
     ListChoices(<<"Baixo", "Alto">>),
     DictChoices(<< <<"nao", "Nao">>, <<"sim", "Sim">> >>)}

\* choice_order: None or a JSON list of choice codes
ChoiceOrderValues ==
    {None, Some(<<>>), Some(<<"sim", "nao">>), Some(<<"sim", "talvez">>)}

\* the instance has primary key 1: parent_variable 1 is the instance itself
ParentValues == {None, Some(1), Some(2)}

Instances ==
    [id : {1}, data_type : DataTypes, min_value : BoundValues,
     max_value : BoundValues, choices : ChoiceValues,
     choice_order : ChoiceOrderValues, parent_variable : ParentValues,
     is_required : BOOLEAN]

NoInstance ==
    [id |-> 0, data_type |-> "", min_value |-> None, max_value |-> None,
     choices |-> NoChoices, choice_order |-> None, parent_variable |-> None,
     is_required |-> FALSE]

\* the data types the claims call choice-like
ChoiceLike == {"choice", "qualitativa_ordinal", "qualitativa_nominal"}

\* the keys of a choices value: the codes of a dict, the indexes of a list
ChoiceKeys(ch) ==
    IF ch.kind = "dict" THEN {ch.items[i][1] : i \in 1..Len(ch.items)}
    ELSE {}

\* a mutant: the bounds are compared with >=
CleanRejectsEqualBounds(o) ==
    IF o.data_type = "choice" /\ ~Truthy(o.choices)
    THEN [obj |-> o, err |-> "choices"]
    ELSE IF o.min_value # None /\ o.max_value # None
            /\ o.min_value[1] >= o.max_value[1]
    THEN [obj |-> o, err |-> "max_value"]
    ELSE [obj |-> IF o.data_type # "choice" THEN [o EXCEPT !.choices = NoChoices]
                  ELSE o,
          err |-> "none"]

\* a mutant: choices is never cleared
CleanKeepsChoices(o) ==
    IF o.data_type = "choice" /\ ~Truthy(o.choices)
    THEN [obj |-> o, err |-> "choices"]
    ELSE IF o.min_value # None /\ o.max_value # None
            /\ o.min_value[1] > o.max_value[1]
    THEN [obj |-> o, err |-> "max_value"]
    ELSE [obj |-> o, err |-> "none"]

\* a mutant: choices is cleared before the checks, not after them
CleanClearsFirst(o) ==
    LET n == IF o.data_type # "choice" THEN [o EXCEPT !.choices = NoChoices] ELSE o
    IN  IF n.data_type = "choice" /\ ~Truthy(n.choices)
        THEN [obj |-> n, err |-> "choices"]
        ELSE IF n.min_value # None /\ n.max_value # None
                /\ n.min_value[1] > n.max_value[1]
        THEN [obj |-> n, err |-> "max_value"]
        ELSE [obj |-> n, err |-> "none"]

\* Variable.clean: err is the key of the ValidationError raised, "none" on return
Clean(o) ==
    IF o.data_type = "choice" /\ ~Truthy(o.choices)
    THEN [obj |-> o, err |-> "choices"]
    ELSE IF o.min_value # None /\ o.max_value # None
            /\ o.min_value[1] > o.max_value[1]
    THEN [obj |-> o, err |-> "max_value"]
    ELSE [obj |-> IF o.data_type # "choice" THEN [o EXCEPT !.choices = NoChoices]
                  ELSE o,
          err |-> "none"]

\* the entries of choice_order that are no key of choices
DanglingEntries(o) ==
    IF o.choice_order = None THEN {}
    ELSE {o.choice_order[1][i] : i \in 1..Len(o.choice_order[1])}
            \ ChoiceKeys(o.choices)

\* Python truthiness of choice_order: None and [] are falsy
TruthyOrder(co) == co # None /\ co[1] # <<>>

----------------------------------------------------------------------------
(* Variable.get_validation_rules and Variable.get_choices_display *)

\* float(decimal): the bounds of the model are whole numbers below 2^53, which
\* float represents exactly
Float(v) == v

\* the dict get_validation_rules builds, a function on the keys it sets;
\* 'choices' holds self.choices itself, not a copy
GetValidationRules(o) ==
    LET base == [type |-> o.data_type, required |-> o.is_required]
        quant == o.data_type \in {"decimal", "integer"}
        withMin == IF quant /\ o.min_value # None
                   THEN base @@ [min |-> Float(o.min_value[1])] ELSE base
        withMax == IF quant /\ o.max_value # None
                   THEN withMin @@ [max |-> Float(o.max_value[1])] ELSE withMin
    IN  IF o.data_type = "choice" /\ Truthy(o.choices)
        THEN withMax @@ [choices |-> o.choices] ELSE withMax

\* the strings that are sorted somewhere (choice codes, names, categories), in
\* the order of str comparison: code point by code point, capitals first
StrOrder ==
    <<"Area Total", "Elevador", "Form", "Possui Elevador", "dimensoes",
      "infraestrutura", "nao", "outros", "physical", "sim", "talvez">>

\* the position of a string in that order
StrRank(c) == CHOOSE i \in 1..Len(StrOrder) : StrOrder[i] = c

RECURSIVE SortedItems(_)
\* sorted(d.items()) of a dict with pairwise distinct keys
SortedItems(pairs) ==
    IF pairs = <<>> THEN <<>>
    ELSE LET i == CHOOSE k \in 1..Len(pairs) :
                      \A j \in 1..Len(pairs) : StrRank(pairs[k][1]) <= StrRank(pairs[j][1])
             rest == [j \in 1..(Len(pairs) - 1) |-> IF j < i THEN pairs[j] ELSE pairs[j + 1]]
         IN  <<pairs[i]>> \o SortedItems(rest)

\* d[code] on a dict given as a sequence of pairs
Lookup(pairs, c) == (CHOOSE i \in 1..Len(pairs) : pairs[i][1] = c)

\* get_choices_display: the exception it raises ("" when it returns) and the
\* "code: label" entries of the string it returns, in their order
GetChoicesDisplay(o) ==
    IF ~Truthy(o.choices)
    THEN [raised |-> "", value |-> <<"N/A">>]
    ELSE IF o.data_type = "qualitativa_ordinal" /\ TruthyOrder(o.choice_order)
    THEN IF o.choices.kind = "list"
         THEN [raised |-> "TypeError", value |-> <<>>]
         ELSE IF DanglingEntries(o) # {}
         THEN [raised |-> "KeyError", value |-> <<>>]
         ELSE [raised |-> "",
               value |-> [i \in 1..Len(o.choice_order[1]) |->
                            o.choices.items[Lookup(o.choices.items, o.choice_order[1][i])]]]
    ELSE IF o.choices.kind = "list"
         THEN [raised |-> "AttributeError", value |-> <<>>]
         ELSE [raised |-> "", value |-> SortedItems(o.choices.items)]

----------------------------------------------------------------------------
(* State *)

NoOp ==
    [kind |-> "none", defs |-> <<>>, before |-> {}, created_count |-> 0,
     updated_count |-> 0, log |-> <<>>, err |-> "", sel |-> {}]

\* no method has been called on the instance
NoCall == [op |-> "none", raised |-> "", value |-> <<>>]

NoPrev == [same |-> FALSE, before |-> {}, created_count |-> 0, updated_count |-> 0]

\* no Property instance has been made
NoProperty ==
    [instance |-> [price_per_sqm |-> None, total_price |-> None, total_area |-> None],
     given |-> [price_per_sqm |-> None, total_price |-> None, total_area |-> None],
     row |-> None]

Init ==
    /\ store = {}
    /\ nextId = 1
    /\ last = NoOp
    /\ prev = NoPrev
    /\ obj = NoInstance
    /\ given = NoInstance
    /\ cleanErr = "unset"
    /\ call = NoCall
    /\ property = NoProperty

\* a run of a seeder command on the list L
Seed(L) ==
    LET run == SeedRun(store, nextId, L)
    IN  /\ store' = run.store
        /\ nextId' = run.nextId
        /\ last' = [NoOp EXCEPT !.kind = "seed", !.defs = L, !.before = store,
                                !.created_count = run.created_count,
                                !.updated_count = run.updated_count,
                                !.log = run.log]
        /\ prev' = IF last.kind = "seed" /\ last.defs = L
                   THEN [same |-> TRUE, before |-> last.before,
                         created_count |-> last.created_count,
                         updated_count |-> last.updated_count]
                   ELSE NoPrev
        /\ UNCHANGED <<obj, given, cleanErr, call, property>>

\* a mutant: the INSERT is not checked against the unique index on code
CreateUnchecked(d) ==
    /\ store' = store \cup {NewRow(nextId, d)}
    /\ nextId' = nextId + 1
    /\ last' = [NoOp EXCEPT !.kind = "create", !.defs = <<d>>, !.before = store]
    /\ prev' = NoPrev
    /\ UNCHANGED <<obj, given, cleanErr, call, property>>

\* an explicit create (Variable.objects.create, the admin's add form): the
\* unique index on code rejects a second row with the same code
Create(d) ==
    /\ IF CodeExists(store, d.code)
       THEN /\ UNCHANGED <<store, nextId>>
            /\ last' = [NoOp EXCEPT !.kind = "create", !.defs = <<d>>,
                                    !.before = store, !.err = "DuplicateCode"]
       ELSE /\ store' = store \cup {NewRow(nextId, d)}
            /\ nextId' = nextId + 1
            /\ last' = [NoOp EXCEPT !.kind = "create", !.defs = <<d>>,
                                    !.before = store]
    /\ prev' = NoPrev
    /\ UNCHANGED <<obj, given, cleanErr, call, property>>

\* queryset.update(**{column: value}) on the selected rows
QuerysetUpdate(s, sel, column, value) ==
    {IF r.id \in sel THEN [r EXCEPT ![column] = value] ELSE r : r \in s}

AdminAction(kind, sel, column, value) ==
    /\ sel # {}
    /\ store' = QuerysetUpdate(store, sel, column, value)
    /\ last' = [NoOp EXCEPT !.kind = kind, !.before = store, !.sel = sel]
    /\ prev' = NoPrev
    /\ UNCHANGED <<nextId, obj, given, cleanErr, call, property>>

activate_variables(sel) == AdminAction("activate_variables", sel, "is_active", TRUE)

\* a mutant: the action writes the value of its twin
deactivate_variablesActivates(sel) ==
    AdminAction("deactivate_variables", sel, "is_active", TRUE)

deactivate_variables(sel) == AdminAction("deactivate_variables", sel, "is_active", FALSE)

mark_as_required(sel) == AdminAction("mark_as_required", sel, "is_required", TRUE)

\* Meta.ordering: category, then display_order, then name
OrderingLeq(a, b) ==
    \/ StrRank(a.category) < StrRank(b.category)
    \/ /\ a.category = b.category
       /\ \/ a.display_order < b.display_order
          \/ /\ a.display_order = b.display_order
             /\ StrRank(a.name) <= StrRank(b.name)

RECURSIVE OrderBy(_)
\* the rows of a queryset in the order of Meta.ordering
OrderBy(rows) ==
    IF rows = {} THEN <<>>
    ELSE LET first == CHOOSE r \in rows : \A q \in rows : OrderingLeq(r, q)
         IN  <<first>> \o OrderBy(rows \ {first})

\* the catalog read: the change list filtered on is_active, in the model's
\* default order
ActiveVariables(s) == OrderBy({r \in s : r.is_active})

Next ==
    \/ \E L \in DefinitionLists : Seed(L)
    \/ \E d \in Definitions : Create(d)
    \/ \E sel \in SUBSET Ids(store) : activate_variables(sel)
    \/ \E sel \in SUBSET Ids(store) : deactivate_variables(sel)
    \/ \E sel \in SUBSET Ids(store) : mark_as_required(sel)

Spec == Init /\ [][Next]_vars

----------------------------------------------------------------------------
(* clean() called on instances of every shape *)

InitClean ==
    /\ store = {}
    /\ nextId = 1
    /\ last = NoOp
    /\ prev = NoPrev
    /\ obj \in Instances
    /\ given = obj
    /\ cleanErr = "unset"
    /\ call = NoCall
    /\ property = NoProperty

\* instance.clean(): the instance may be changed in place, the error is recorded
CleanCall ==
    LET res == Clean(obj)
    IN  /\ given' = obj
        /\ obj' = res.obj
        /\ cleanErr' = res.err
        /\ call' = [NoCall EXCEPT !.op = "clean",
                                  !.raised = IF res.err = "none" THEN ""
                                             ELSE "ValidationError"]
        /\ UNCHANGED <<store, nextId, last, prev, property>>

\* rules = instance.get_validation_rules()
GetValidationRulesCall ==
    /\ call' = [NoCall EXCEPT !.op = "get_validation_rules",
                              !.value = GetValidationRules(obj)]
    /\ UNCHANGED <<store, nextId, last, prev, obj, given, cleanErr, property>>

\* instance.get_choices_display()
GetChoicesDisplayCall ==
    LET res == GetChoicesDisplay(obj)
    IN  /\ call' = [NoCall EXCEPT !.op = "get_choices_display",
                                  !.raised = res.raised, !.value = res.value]
        /\ UNCHANGED <<store, nextId, last, prev, obj, given, cleanErr, property>>

\* the item a caller adds to the choices it was handed
ExtraItem(ch) == IF ch.kind = "dict" THEN <<"talvez", "Talvez">> ELSE "Talvez"

\* the caller of get_validation_rules changes rules['choices'] in place
\* (append, or a new key): the object is the instance's own choices
ModifyReturnedChoices ==
    /\ call.op = "get_validation_rules"
    /\ "choices" \in DOMAIN call.value
    /\ \A i \in 1..Len(obj.choices.items) :
            obj.choices.items[i] # ExtraItem(obj.choices)
    /\ LET ch == [call.value.choices EXCEPT
                     !.items = Append(@, ExtraItem(call.value.choices))]
       IN  /\ call' = [NoCall EXCEPT !.op = "modify_returned_choices",
                                     !.value = [call.value EXCEPT !.choices = ch]]
           /\ obj' = [obj EXCEPT !.choices = ch]
    /\ UNCHANGED <<store, nextId, last, prev, given, cleanErr, property>>

NextClean ==
    \/ CleanCall
    \/ GetValidationRulesCall
    \/ GetChoicesDisplayCall
    \/ ModifyReturnedChoices

SpecClean == InitClean /\ [][NextClean]_vars

----------------------------------------------------------------------------
(* The built-in lists seeded whole, and the add and change forms of        *)
(* VariableAdmin, which validate the instance before they save it          *)

\* the values the data_type column accepts (the class's last assignment)
DATA_TYPE_CHOICES == {"quantitativa", "qualitativa_ordinal", "qualitativa_nominal"}

FormCodes == {"elevador", "varanda"}
FormDataTypes == DATA_TYPE_CHOICES \cup {"choice", "boolean"}
FormBounds ==
    {[min_value |-> None, max_value |-> None],
     [min_value |-> Some(5), max_value |-> Some(0)]}

\* what a submitted form holds: the columns of the fieldsets
FormInputs ==
    {[code |-> c, name |-> "Form", category |-> "outros", data_type |-> t,
      min_value |-> b.min_value, max_value |-> b.max_value, choices |-> ch,
      is_required |-> FALSE, is_active |-> TRUE, use_in_regression |-> TRUE,
      display_order |-> 0] :
        c \in FormCodes, t \in FormDataTypes, b \in FormBounds, ch \in ChoiceValues}

\* the validation of a model form: the column's choices, then clean(), then
\* the unique index on code against the other rows
FullClean(o, others) ==
    IF o.data_type \notin DATA_TYPE_CHOICES
    THEN [obj |-> o, err |-> "data_type"]
    ELSE LET c == Clean(o)
         IN  IF c.err # "none" THEN c
             ELSE IF CodeExists(others, o.code)
             THEN [obj |-> c.obj, err |-> "code"]
             ELSE c

\* manage.py seed_variables
seed_variables == Seed(SeedVariables)

\* manage.py load_variable_catalog
load_variable_catalog == Seed(CatalogVariables)

\* the add form: a new instance, saved when it validates
AdminAdd(f) ==
    LET res == FullClean(NewRow(nextId, f), store)
    IN  /\ IF res.err = "none"
           THEN /\ store' = store \cup {res.obj}
                /\ nextId' = nextId + 1
           ELSE UNCHANGED <<store, nextId>>
        /\ last' = [NoOp EXCEPT !.kind = "admin_add", !.err = res.err]
        /\ prev' = NoPrev
        /\ UNCHANGED <<obj, given, cleanErr, call, property>>

\* the change form of row r: the form's columns set on it, saved when it
\* validates
AdminChange(r, f) ==
    LET res == FullClean(SetAttrs(r, f), store \ {r})
    IN  /\ r \in store
        /\ IF res.err = "none"
           THEN store' = (store \ {r}) \cup {res.obj}
           ELSE UNCHANGED store
        /\ last' = [NoOp EXCEPT !.kind = "admin_change", !.err = res.err]
        /\ prev' = NoPrev
        /\ UNCHANGED <<nextId, obj, given, cleanErr, call, property>>

NextCatalog ==
    \/ seed_variables
    \/ load_variable_catalog
    \/ \E f \in FormInputs : AdminAdd(f)
    \/ \E r \in store, f \in FormInputs : AdminChange(r, f)

SpecCatalog == Init /\ [][NextCatalog]_vars

----------------------------------------------------------------------------
(* The two seeders on their whole lists, and the admin actions on the rows *)
(* of two codes that both lists define                                     *)

WatchedCodes == {"elevador", "frente"}
WatchedIds(s) == Ids({r \in s : r.code \in WatchedCodes})

NextBuiltin ==
    \/ Seed(AllSeedVariables)
    \/ Seed(AllCatalogVariables)
    \/ \E sel \in SUBSET WatchedIds(store) : activate_variables(sel)
    \/ \E sel \in SUBSET WatchedIds(store) : deactivate_variables(sel)

SpecBuiltin == Init /\ [][NextBuiltin]_vars

----------------------------------------------------------------------------
(* Derived variables: parent_variable is a foreign key to the table itself *)
(* with on_delete=CASCADE                                                  *)

\* padrao_construcao and two of the dummies the seed list derives from it
FamilyCodes == {"padrao_construcao", "dic_padrao_alto", "dic_padrao_luxo"}

\* the rows whose parent_variable is one of the rows in del
Children(s, del) ==
    {r \in s : r.parent_variable # None /\ r.parent_variable[1] \in Ids(del)}

\* a mutant: the cascade stops at the children
CollectChildrenOnly(s, del) == del \cup Children(s, del)

RECURSIVE Collect(_, _)
\* the rows a delete collects: the rows in del and, through CASCADE, every row
\* that points at a collected row
Collect(s, del) ==
    LET more == Children(s, del) \ del
    IN  IF more = {} THEN del ELSE Collect(s, del \cup more)

\* Variable.objects.create(code=c, parent_variable=p): the parent is None or a
\* stored row
CreateVariable(c, p) ==
    /\ nextId <= MaxId
    /\ ~CodeExists(store, c)
    /\ p # None => p[1] \in Ids(store)
    /\ store' = store \cup {NewRow(nextId, [code |-> c, parent_variable |-> p])}
    /\ nextId' = nextId + 1
    /\ last' = [NoOp EXCEPT !.kind = "create_variable"]
    /\ prev' = NoPrev
    /\ UNCHANGED <<obj, given, cleanErr, call, property>>

\* r.parent_variable = p; r.save(): p is None or a stored row, r itself too
SetParent(r, p) ==
    /\ r \in store
    /\ p # None => p[1] \in Ids(store)
    /\ r.parent_variable # p
    /\ store' = (store \ {r}) \cup {[r EXCEPT !.parent_variable = p]}
    /\ last' = [NoOp EXCEPT !.kind = "set_parent"]
    /\ prev' = NoPrev
    /\ UNCHANGED <<nextId, obj, given, cleanErr, call, property>>

\* r.delete()
Delete(r) ==
    /\ r \in store
    /\ store' = store \ Collect(store, {r})
    /\ last' = [NoOp EXCEPT !.kind = "delete", !.before = store, !.sel = {r.id}]
    /\ prev' = NoPrev
    /\ UNCHANGED <<nextId, obj, given, cleanErr, call, property>>

NextFamily ==
    \/ \E c \in FamilyCodes, p \in {None} \cup {Some(i) : i \in 1..MaxId} :
          CreateVariable(c, p)
    \/ \E r \in store, p \in {None} \cup {Some(i) : i \in 1..MaxId} : SetParent(r, p)
    \/ \E r \in store : Delete(r)

SpecFamily == Init /\ [][NextFamily]_vars

----------------------------------------------------------------------------
(* Property.save on an in-memory instance.  A Decimal is a fraction <<n, d>> *)
(* in lowest terms with d > 0; the quotient of two Decimals is taken as     *)
(* exact (the context's 28 digits are not modelled).                        *)

RECURSIVE Gcd(_, _)
Gcd(a, b) == IF b = 0 THEN a ELSE Gcd(b, a % b)

Abs(n) == IF n < 0 THEN 0 - n ELSE n

\* Decimal(n)
Dec(n) == <<n, 1>>

\* a / b for Decimals a and b, b above zero
DecDiv(a, b) ==
    LET n == a[1] * b[2]
        d == a[2] * b[1]
        g == Gcd(Abs(n), Abs(d))
    IN  <<n \div g, d \div g>>

\* Python truthiness of an optional Decimal: None and 0 are falsy
TruthyDec(v) == v # None /\ v[1][1] # 0

Amounts == {None} \cup {Some(Dec(k)) : k \in -1..MaxAmount}

PropertyInstances ==
    [price_per_sqm : Amounts, total_price : Amounts, total_area : Amounts]

\* the instance as Property.save leaves it and writes it
PropertySave(o) ==
    IF ~TruthyDec(o.price_per_sqm) /\ TruthyDec(o.total_price)
          /\ TruthyDec(o.total_area) /\ o.total_area[1][1] > 0
    THEN [o EXCEPT !.price_per_sqm = Some(DecDiv(o.total_price[1], o.total_area[1]))]
    ELSE o

InitProperty ==
    /\ store = {}
    /\ nextId = 1
    /\ last = NoOp
    /\ prev = NoPrev
    /\ obj = NoInstance
    /\ given = NoInstance
    /\ cleanErr = "unset"
    /\ call = NoCall
    /\ \E o \in PropertyInstances : property = [NoProperty EXCEPT !.instance = o]

\* instance.save()
Save ==
    LET saved == PropertySave(property.instance)
    IN  /\ property' = [instance |-> saved, given |-> property.instance,
                        row |-> Some(saved)]
        /\ call' = [NoCall EXCEPT !.op = "save"]
        /\ UNCHANGED <<store, nextId, last, prev, obj, given, cleanErr>>

NextProperty == Save

SpecProperty == InitProperty /\ [][NextProperty]_vars

----------------------------------------------------------------------------
(* Properties of the seeders and of the table *)

DefCodes(L) == {L[i].code : i \in 1..Len(L)}
IsSeed == last.kind = "seed"
IsRerun == IsSeed /\ prev.same

\* C1, as stated: every list of n definitions seeded into an empty store reports
\* created = n and updated = 0, and seeded again unchanged reports created = 0
\* and updated = n.
C1_AsStated ==
    (IsRerun /\ prev.before = {}) =>
        /\ prev.created_count = Len(last.defs) /\ prev.updated_count = 0
        /\ last.created_count = 0 /\ last.updated_count = Len(last.defs)

\* C1, amended: a seed run on an empty store reports created = the number of
\* distinct codes in the list and updated = n minus that number (created = n and
\* updated = 0 when the codes are pairwise distinct); the run repeated with the
\* same list and nothing in between reports created = 0 and updated = n.
C1_SeedReports ==
    /\ (IsSeed /\ last.before = {}) =>
          /\ last.created_count = Cardinality(DefCodes(last.defs))
          /\ last.updated_count = Len(last.defs) - Cardinality(DefCodes(last.defs))
    /\ IsRerun =>
          /\ last.created_count = 0
          /\ last.updated_count = Len(last.defs)

C1_Witness ==
    /\ IsRerun /\ prev.before = {}
    /\ Len(last.defs) = 2
    /\ prev.created_count = 2 /\ last.updated_count = 2

C3_RerunChangesNothing == IsRerun => store = last.before

C3_Witness ==
    /\ IsRerun
    /\ prev.before # {}
    /\ prev.before # last.before
    /\ store = last.before
    /\ Cardinality(DefCodes(last.defs)) = 2

\* C4: the two counters of a seed run add up to the number of definitions.
C4_CountsAddUp ==
    IsSeed => last.created_count + last.updated_count = Len(last.defs)

C4_Witness ==
    /\ IsSeed /\ last.before # {}
    /\ last.created_count = 1 /\ last.updated_count = 1

\* C5: a seed run removes nothing: a row whose code is not in the list is
\* still stored, unchanged, after the run, and every code stored before the run
\* is stored after it.
C5_SeedIsAdditive ==
    IsSeed =>
        \A r \in last.before :
            /\ r.code \notin DefCodes(last.defs) => r \in store
            /\ r.code \in Codes(store)

C5_Witness ==
    /\ IsSeed /\ last.defs # <<>>
    /\ \E r \in last.before : r.code \notin DefCodes(last.defs) /\ r \in store
    /\ store # last.before

\* C6: the definitions are processed in the order of the list: the i-th outcome
\* is for the i-th definition, it is "created" exactly when the code was neither
\* stored before the run nor met earlier in the list, and after the run the row
\* of a code holds the values of the last definition with that code.
C6_InputOrderLastWins ==
    IsSeed =>
        /\ Len(last.log) = Len(last.defs)
        /\ \A i \in 1..Len(last.defs) :
              LET d == last.defs[i]
              IN  /\ last.log[i].code = d.code
                  /\ last.log[i].created =
                        (/\ ~CodeExists(last.before, d.code)
                         /\ \A j \in 1..(i - 1) : last.defs[j].code # d.code)
                  /\ (\A j \in (i + 1)..Len(last.defs) : last.defs[j].code # d.code)
                        => \A f \in DOMAIN d : RowOf(store, d.code)[f] = d[f]

C6_Witness ==
    /\ IsSeed
    /\ last.defs = <<SeedElevador, CatalogElevador>>
    /\ last.log = <<[code |-> "elevador", created |-> TRUE],
                    [code |-> "elevador", created |-> FALSE]>>
    /\ RowOf(store, "elevador").name = "Elevador"

\* C7: no two stored rows have the same code.
C7_CodeUnique ==
    \A r1, r2 \in store : r1.code = r2.code => r1 = r2

C7_Witness ==
    /\ Cardinality(store) = 2
    /\ last.kind = "create" /\ last.err = ""
    /\ \E r \in last.before : r.is_required /\ ~r.is_active

\* C8: a create of a code that is stored fails with DuplicateCode and leaves the
\* store as it was; an upsert of a stored code succeeds as an update, reported
\* with created = false.
C8_CreateFailsUpsertUpdates ==
    /\ (last.kind = "create" /\ CodeExists(last.before, last.defs[1].code)) =>
          /\ last.err = "DuplicateCode"
          /\ store = last.before
    /\ (last.kind = "create" /\ ~CodeExists(last.before, last.defs[1].code)) =>
          last.err = ""
    /\ IsSeed =>
          \A i \in 1..Len(last.defs) :
              CodeExists(last.before, last.defs[i].code) =>
                  /\ ~last.log[i].created
                  /\ last.err = ""
                  /\ Cardinality({r \in store : r.code = last.defs[i].code}) = 1

C8_Witness ==
    /\ last.kind = "create" /\ last.err = "DuplicateCode"
    /\ last.defs = <<SeedElevador>>
    /\ RowOf(store, "elevador").data_type = "qualitativa_nominal"

----------------------------------------------------------------------------
(* Properties of clean() *)

Called == cleanErr # "unset"
BothBounds == given.min_value # None /\ given.max_value # None
Inverted == given.min_value[1] > given.max_value[1]
MissingChoices == given.data_type = "choice" /\ ~Truthy(given.choices)

\* C10, as stated: with both bounds set clean() fails exactly when
\* min_value > max_value, and then with the error of the bounds.
C10_AsStated ==
    (Called /\ BothBounds) =>
        /\ (cleanErr # "none") <=> Inverted
        /\ Inverted => cleanErr = "max_value"

\* C10, amended: with both bounds set, clean() raises the error of the bounds
\* exactly when min_value > max_value and the choices check before it passes
\* (data_type is not 'choice', or choices is non-empty); it fails at all exactly
\* when min_value > max_value or that choices check fails; equal bounds are
\* accepted whenever the choices check passes.
C10_BoundsCheck ==
    (Called /\ BothBounds) =>
        /\ (cleanErr = "max_value") <=> (Inverted /\ ~MissingChoices)
        /\ (cleanErr = "choices") <=> MissingChoices
        /\ (cleanErr = "none") <=> (~Inverted /\ ~MissingChoices)

C10_Witness ==
    /\ given.min_value = Some(10) /\ given.max_value = Some(5)
    /\ given.data_type = "quantitativa"
    /\ cleanErr = "max_value"

\* C11: clean() fails with the error of choices whenever data_type is
\* choice-like (choice, ordinal, nominal) and choices is empty or absent.
C11_AsStated ==
    (Called /\ given.data_type \in ChoiceLike /\ ~Truthy(given.choices)) =>
        cleanErr = "choices"

\* C12: for a Variable with a choice_order, clean() fails with the error of
\* choice_order exactly when some entry of choice_order is no key of choices.
C12_AsStated ==
    (Called /\ given.choice_order # None) =>
        ((cleanErr = "choice_order") <=> (DanglingEntries(given) # {}))

\* C13: clean() rejects, with the error of parent_variable, an instance that is
\* its own parent.
C13_AsStated ==
    (Called /\ given.parent_variable = Some(given.id)) =>
        cleanErr = "parent_variable"

C15_AsStated ==
    (call.op = "clean" /\ cleanErr = "none" /\ given.data_type \notin ChoiceLike) =>
        (~Truthy(obj.choices) /\ ~TruthyOrder(obj.choice_order))

\* C17: a clean() that raises changes neither the instance nor the store.
C17_FailureChangesNothing ==
    [][(call'.op = "clean" /\ call'.raised # "")
          => (obj' = obj /\ store' = store)]_vars

C17_Witness ==
    /\ call.op = "clean" /\ cleanErr = "max_value"
    /\ given.data_type = "quantitativa"
    /\ Truthy(obj.choices)
    /\ obj = given

\* the instance has passed clean() and is as clean() left it
Validated == Clean(obj) = [obj |-> obj, err |-> "none"]

\* C18: on a record that has passed clean(), get_validation_rules and the
\* ordering of get_choices_display return and never raise, whether choices is a
\* list of labels or a mapping, with or without choice_order.
C18_AsStated ==
    (call.op \in {"get_validation_rules", "get_choices_display"} /\ Validated) =>
        call.raised = ""

\* C19: get_validation_rules changes no field of the Variable and nothing in
\* the store, and a change made to the choices it returned does not change the
\* Variable's choices.
C19_AsStated ==
    [][(call'.op \in {"get_validation_rules", "modify_returned_choices"})
          => (obj' = obj /\ store' = store)]_vars

\* C16: whatever seed runs of the two built-in lists and validated saves have
\* happened, a stored Variable has non-empty choices exactly when its
\* data_type is choice-like.
C16_AsStated ==
    \A r \in store : Truthy(r.choices) <=> r.data_type \in ChoiceLike

\* the labels of a choices value, in the order it holds them
Labels(ch) ==
    IF ch.kind = "dict" THEN [i \in 1..Len(ch.items) |-> ch.items[i][2]]
    ELSE ch.items

\* the labels of a mapping in the configured order: by choice_order when it is
\* set, by ascending code otherwise
ConfiguredLabels(o) ==
    IF TruthyOrder(o.choice_order)
    THEN [i \in 1..Len(o.choice_order[1]) |->
            o.choices.items[Lookup(o.choices.items, o.choice_order[1][i])][2]]
    ELSE Labels(DictChoices(SortedItems(o.choices.items)))

\* choice_order is unset, or names every code of choices and no other
OrderCoversChoices(o) ==
    TruthyOrder(o.choice_order) =>
        {o.choice_order[1][i] : i \in 1..Len(o.choice_order[1])} = ChoiceKeys(o.choices)

\* C21: the choices in the descriptor of get_validation_rules are in the
\* configured order: in the order of choice_order when it is set, in ascending
\* order of code otherwise.
C21_AsStated ==
    ( /\ call.op = "get_validation_rules"
      /\ "choices" \in DOMAIN call.value
      /\ obj.choices.kind = "dict"
      /\ OrderCoversChoices(obj) ) =>
        Labels(call.value.choices) = ConfiguredLabels(obj)

\* the types the claims call quantitative
Quantitative == {"decimal", "integer", "quantitativa"}

\* C22: in the descriptor of get_validation_rules, min is present exactly when
\* data_type is quantitative and min_value is set, and max exactly when
\* data_type is quantitative and max_value is set.
C22_AsStated ==
    call.op = "get_validation_rules" =>
        /\ ("min" \in DOMAIN call.value) <=>
              (obj.data_type \in Quantitative /\ obj.min_value # None)
        /\ ("max" \in DOMAIN call.value) <=>
              (obj.data_type \in Quantitative /\ obj.max_value # None)

\* C23: in the descriptor of get_validation_rules, choices is present exactly
\* when data_type is choice-like and the Variable's choices are non-empty.
C23_AsStated ==
    call.op = "get_validation_rules" =>
        (("choices" \in DOMAIN call.value) <=>
            (obj.data_type \in ChoiceLike /\ Truthy(obj.choices)))

\* the ids of the rows the catalog read returns
ReadIds(s) == {ActiveVariables(s)[i].id : i \in 1..Len(ActiveVariables(s))}

\* C24: the catalog read returns the active Variables, each once, in the order
\* of (category, display_order, name); a row that deactivate_variables selected
\* is stored unchanged but for is_active and is absent from the read, and a row
\* that activate_variables selected is in the read.
C24_ReadFollowsActivation ==
    LET read == ActiveVariables(store)
    IN  /\ ReadIds(store) = Ids({r \in store : r.is_active})
        /\ Len(read) = Cardinality(ReadIds(store))
        /\ \A i, j \in 1..Len(read) : i < j => OrderingLeq(read[i], read[j])
        /\ last.kind = "deactivate_variables" =>
              \A r \in last.before : r.id \in last.sel =>
                  /\ [r EXCEPT !.is_active = FALSE] \in store
                  /\ r.id \notin ReadIds(store)
        /\ last.kind = "activate_variables" =>
              \A r \in last.before : r.id \in last.sel =>
                  /\ [r EXCEPT !.is_active = TRUE] \in store
                  /\ r.id \in ReadIds(store)

\* a deactivated row reappears, in front of a row created before it
C24_Witness ==
    /\ last.kind = "activate_variables"
    /\ \E r \in last.before : r.id \in last.sel /\ ~r.is_active
    /\ Len(ActiveVariables(store)) = 2
    /\ ActiveVariables(store)[1].id > ActiveVariables(store)[2].id

RECURSIVE AncestorAt(_, _, _)
\* the id k parent links above row r in s, 0 when the chain ends before
AncestorAt(s, r, k) ==
    IF r.parent_variable = None \/ r.parent_variable[1] \notin Ids(s) THEN 0
    ELSE IF k = 1 THEN r.parent_variable[1]
    ELSE AncestorAt(s, CHOOSE q \in s : q.id = r.parent_variable[1], k - 1)

\* r is derived from the row with id t through one or more parent links
DerivedFrom(s, r, t) == \E k \in 1..Cardinality(s) : AncestorAt(s, r, k) = t

\* C25: a delete removes the Variable, every Variable derived from it through
\* parent_variable at any depth, and no other; no stored Variable ever has a
\* parent_variable that is not stored.
C25_DeleteCascades ==
    /\ \A r \in store : r.parent_variable # None => r.parent_variable[1] \in Ids(store)
    /\ last.kind = "delete" =>
          \A t \in last.sel :
              store = {r \in last.before : r.id # t /\ ~DerivedFrom(last.before, r, t)}

\* the head of a chain of three is deleted and takes the chain with it
C25_Witness ==
    /\ last.kind = "delete"
    /\ Cardinality(last.before) = 3
    /\ store = {}
    /\ \E r \in last.before : r.parent_variable = None /\ r.id \in last.sel
    /\ \E r \in last.before : AncestorAt(last.before, r, 2) \in last.sel

\* the last run was a seeder's whole list
IsBootstrap == IsSeed /\ last.defs \in {AllSeedVariables, AllCatalogVariables}

\* C26, as stated: a seeder run on the empty store reports 24 created and none
\* updated, and the run after it none created and 24 updated.
C26_AsStated ==
    /\ (IsBootstrap /\ last.before = {}) =>
          (last.created_count = 24 /\ last.updated_count = 0)
    /\ (IsBootstrap /\ IsRerun /\ prev.before = {}) =>
          (last.created_count = 0 /\ last.updated_count = 24)

\* C26, amended: the codes of each list are pairwise distinct; a seeder run on
\* the empty store reports as many created as its list has definitions, 25 for
\* seed_variables and 22 for load_variable_catalog, and none updated; the run
\* after it reports none created and as many updated.
C26_BootstrapReports ==
    /\ Len(AllSeedVariables) = 25 /\ Len(AllCatalogVariables) = 22
    /\ IsBootstrap =>
          Cardinality(DefCodes(last.defs)) = Len(last.defs)
    /\ (IsBootstrap /\ last.before = {}) =>
          /\ last.created_count = Len(last.defs)
          /\ last.updated_count = 0
          /\ Cardinality(store) = Len(last.defs)
    /\ (IsBootstrap /\ IsRerun /\ prev.before = {}) =>
          /\ prev.created_count = Len(last.defs) /\ prev.updated_count = 0
          /\ last.created_count = 0
          /\ last.updated_count = Len(last.defs)
          /\ store = last.before

\* seed_variables has run twice on what was the empty store
C26_Witness ==
    /\ IsRerun /\ prev.before = {}
    /\ last.defs = AllSeedVariables
    /\ last.updated_count = 25
    /\ Cardinality(store) = 25

\* C27: no seed run, explicit create or admin action changes the code of a
\* stored Variable: every row stored before the operation is stored after it
\* under the same id and code, and a code that was stored keeps its id (an
\* upsert on it updates that row, it does not put another in its place).
C27_CodeImmutable ==
    last.kind # "none" =>
        /\ \A r \in last.before : \E q \in store : q.id = r.id /\ q.code = r.code
        /\ \A r \in last.before : \A q \in store : q.code = r.code => q.id = r.id

\* a seed run has changed a stored row
C27_Witness ==
    /\ IsSeed
    /\ \E r \in last.before :
          /\ r.code \in DefCodes(last.defs)
          /\ r \notin store
          /\ \E q \in store : q.id = r.id /\ q.code = r.code /\ q.name # r.name

\* the columns that the definitions of L for code c name
NamedKeys(L, c) == UNION {DOMAIN L[i] : i \in {j \in 1..Len(L) : L[j].code = c}}

ValidRow(r) ==
    /\ (r.min_value # None /\ r.max_value # None) => r.min_value[1] <= r.max_value[1]
    /\ Truthy(r.choices) <=> r.data_type \in ChoiceLike
    /\ r.choice_order # None =>
          /\ r.choices.kind = "dict"
          /\ Len(r.choice_order[1]) = Len(r.choices.items)
          /\ \A i, j \in 1..Len(r.choice_order[1]) :
                r.choice_order[1][i] = r.choice_order[1][j] => i = j
          /\ {r.choice_order[1][i] : i \in 1..Len(r.choice_order[1])}
                = ChoiceKeys(r.choices)

\* C29: the codes of each built-in list are pairwise distinct, and the rows a
\* seeder makes of its list on the empty store are structurally valid: bounds
\* in order, choices non-empty exactly for the choice-like types, every
\* choice_order a permutation of the keys of its choices.
C29_BuiltinListsValid ==
    (IsBootstrap /\ last.before = {}) =>
        /\ Cardinality(DefCodes(last.defs)) = Len(last.defs)
        /\ Cardinality(store) = Len(last.defs)
        /\ \A r \in store : ValidRow(r)

\* load_variable_catalog has made its rows, the ordinal ones with a choice_order
C29_Witness ==
    /\ IsSeed /\ last.defs = AllCatalogVariables /\ last.before = {}
    /\ Cardinality(store) = 22
    /\ \E r \in store : r.data_type = "qualitativa_ordinal" /\ TruthyOrder(r.choice_order)
    /\ \E r \in store : r.min_value # None /\ r.max_value # None

\* C30: save() sets price_per_sqm to total_price / total_area exactly when
\* price_per_sqm is unset or zero and total_price and total_area are both set
\* with total_area above zero, and leaves it as it was otherwise.
C30_AsStated ==
    call.op = "save" =>
        LET g == property.given
        IN  IF /\ ~TruthyDec(g.price_per_sqm)
               /\ g.total_price # None /\ g.total_area # None
               /\ g.total_area[1][1] > 0
            THEN property.instance.price_per_sqm =
                    Some(DecDiv(g.total_price[1], g.total_area[1]))
            ELSE property.instance.price_per_sqm = g.price_per_sqm

====
